---- MODULE Spec2Model ----
(***************************************************************************)
(* Model of `notation verify` (cmd/notation/verify.go) and of the          *)
(* experimental-feature gate (internal/experimental/experimental.go).      *)
(*                                                                         *)
(* One behaviour is one invocation of the command: cobra parses the flags, *)
(* validates the positional argument, runs PreRunE, validates the flag     *)
(* group declared by MarkFlagsRequiredTogether and then runs RunE, which   *)
(* is runVerify.  runVerify is modelled statement by statement.            *)
(*                                                                         *)
(* Strings are sequences of tokens (a token is a TLA+ string), so that     *)
(* concatenation (\o), strings.Join and cutting at a separator are real    *)
(* operations.  "" is the empty sequence.                                  *)
(* An error is the chain errors.Unwrap walks: a sequence of records        *)
(* [type, msg], outermost first.  nil is the empty chain.                  *)
(***************************************************************************)
EXTENDS Integers, Sequences, FiniteSets, TLC

VARIABLES
    cmdline,      \* the command line of this invocation (input)
    env,          \* value of the environment variable NOTATION_EXPERIMENTAL
    opts,         \* *verifyOpts
    changed,      \* names of the flags pflag marked Changed
    pc,           \* position in cobra's execute / in runVerify
    stdout,       \* lines written to os.Stdout
    stderr,       \* lines written to os.Stderr
    trace,        \* history: the calls made so far, each with its error result
    configs,      \* runVerify local: parsed plugin config
    userMetadata, \* runVerify local: parsed user metadata
    sigRepo,      \* runVerify local: repository handle
    resolvedRef,  \* runVerify local: resolved reference
    verifyOpts,   \* runVerify local: notation.VerifyOptions handed to Verify
    outcomes,     \* runVerify local: outcomes returned by notation.Verify
    err,          \* runVerify local: err
    retErr        \* the error the command returned (meaningful when pc = "done")

vars == <<cmdline, env, opts, changed, pc, stdout, stderr, trace, configs,
          userMetadata, sigRepo, resolvedRef, verifyOpts, outcomes, err, retErr>>

---------------------------------------------------------------------------
(* Bounds *)

\* longest outcome list notation.Verify returns
MaxOutcomes == 2
\* most per-check results in one outcome
MaxResults == 2

---------------------------------------------------------------------------
(* Strings, errors *)

Nil == <<>>
EmptyString == <<>>

Error(e) == e[1].msg

errorsNew(msg) == <<[type |-> "errorString", msg |-> msg]>>

\* fmt.Errorf(prefix + "%w", e)
fmtErrorfW(prefix, e) == <<[type |-> "wrapError", msg |-> prefix \o Error(e)]>> \o e

\* errors.As(e, &target) for a target of type t
errorsAs(e, t) == \E i \in 1..Len(e) : e[i].type = t

RECURSIVE stringsJoin(_, _)
stringsJoin(elems, sep) ==
    IF Len(elems) = 0 THEN EmptyString
    ELSE IF Len(elems) = 1 THEN elems[1]
    ELSE elems[1] \o sep \o stringsJoin(Tail(elems), sep)

\* index of the first token equal to sep, 0 if there is none
RECURSIVE stringsIndex(_, _)
stringsIndex(s, sep) ==
    IF Len(s) = 0 THEN 0
    ELSE IF s[1] = sep THEN 1
    ELSE LET r == stringsIndex(Tail(s), sep) IN IF r = 0 THEN 0 ELSE r + 1

\* strings.Cut
stringsCut(s, sep) ==
    LET i == stringsIndex(s, sep) IN
    IF i = 0 THEN [before |-> s, after |-> EmptyString, found |-> FALSE]
    ELSE [before |-> SubSeq(s, 1, i - 1), after |-> SubSeq(s, i + 1, Len(s)), found |-> TRUE]

\* the sequences over S of length at most n
SeqsUpTo(S, n) == UNION {[1..k -> S] : k \in 0..n}

---------------------------------------------------------------------------
(* Inputs of one invocation *)

TagRef == <<"localhost:5000/net-monitor", ":", "v1">>
DigestRef == <<"localhost:5000/net-monitor", "@", "sha256:aaa">>

\* digests a tag may point to when it is resolved (tags are mutable)
Digests == {"sha256:aaa", "sha256:bbb"}

KeyValue == <<"key", "=", "value">>
NoValue == <<"novalue">>

\* values of a repeatable key=value flag: no entry, one entry, two entries
FlagLists == {<<>>, <<KeyValue>>, <<NoValue>>, <<KeyValue, NoValue>>, <<NoValue, KeyValue>>}

\* --scope absent, --scope "" and --scope local/net-monitor
ScopeFlags == {[given |-> FALSE, value |-> EmptyString],
               [given |-> TRUE, value |-> EmptyString],
               [given |-> TRUE, value |-> <<"local/net-monitor">>]}

\* --oci-layout absent, --oci-layout and --oci-layout=false
BoolFlags == {"absent", "true", "false"}

CmdLines == [args : {<<>>, <<TagRef>>, <<DigestRef>>},
             ociLayout : BoolFlags,
             scope : ScopeFlags,
             pluginConfig : FlagLists,
             userMetadata : FlagLists]

EnvValues == {EmptyString, <<"1">>, <<"true">>}

inputTypeRegistry == "registry"
inputTypeOCILayout == "ociLayout"

---------------------------------------------------------------------------
(* internal/experimental *)

envName == <<"NOTATION_EXPERIMENTAL">>
enabled == <<"1">>

CommandPath == <<"notation verify">>
Quoted(s) == <<"\"">> \o s \o <<"\"">>

\* faulty variant: only an unset or empty variable disables the feature
IsDisabledWhenEmpty == env = EmptyString

IsDisabled == env # enabled

warnLine == <<"Warning: This feature is experimental and may not be fully tested or completed and may be deprecated. Report any issues to \"https://github/notaryproject/notation\"\n">>
WriteError == <<[type |-> "PathError", msg |-> <<"write /dev/stderr: file already closed">>]>>

\* warn: the line written to stderr and the error of the write
warn(writeOk) ==
    IF writeOk THEN [err |-> Nil, written |-> <<warnLine>>]
    ELSE [err |-> WriteError, written |-> <<>>]

CheckAndWarn(doCheck, writeOk) ==
    IF doCheck.isExperimental
    THEN IF IsDisabled
         THEN [err |-> errorsNew(doCheck.feature
                         \o <<" is experimental and not enabled by default. To use, please set ">>
                         \o envName \o <<"=">> \o enabled \o <<" environment variable">>),
               written |-> <<>>]
         ELSE warn(writeOk)
    ELSE [err |-> Nil, written |-> <<>>]

\* the loop of CheckFlagsAndWarn's closure: "--"+flag for every changed flag
RECURSIVE changedFlags(_)
changedFlags(flags) ==
    IF Len(flags) = 0 THEN <<>>
    ELSE (IF flags[1] \in changed THEN << <<"--", flags[1]>> >> ELSE <<>>)
         \o changedFlags(Tail(flags))

CheckFlagsAndWarn(flags, writeOk) ==
    LET cf == changedFlags(flags)
        doCheck == IF Len(cf) = 0
                   THEN [feature |-> EmptyString, isExperimental |-> FALSE]
                   ELSE [feature |-> <<"flag(s) ">> \o stringsJoin(cf, <<",">>)
                                      \o <<" in ">> \o Quoted(CommandPath),
                         isExperimental |-> TRUE]
    IN  CheckAndWarn(doCheck, writeOk)

---------------------------------------------------------------------------
(* Collaborators of runVerify *)

\* cmd.ParseFlagMap: the key=value pairs of the list as a map (a sequence of
\* <<key, value>>), or a parse error for the first pair without "="
RECURSIVE ParseFlagMap(_, _)
ParseFlagMap(c, flagName) ==
    IF Len(c) = 0 THEN [m |-> <<>>, err |-> Nil]
    ELSE LET cut == stringsCut(c[1], "=") IN
         IF ~cut.found
         THEN [m |-> <<>>,
               err |-> errorsNew(<<"could not parse flag ", flagName,
                                   ": key-value pair requires \"=\" as separator">>)]
         ELSE LET rest == ParseFlagMap(Tail(c), flagName) IN
              IF rest.err # Nil THEN rest
              ELSE [m |-> <<<<cut.before, cut.after>>>> \o rest.m, err |-> Nil]

Malformed(c) == \E i \in 1..Len(c) : ~stringsCut(c[i], "=").found

\* verifier.NewFromConfig: a verifier, or an error reading trust policy / trust store
NewFromConfigErrors == {errorsNew(<<"trust policy is not present">>)}

\* getRepository: a repository handle for the input type, or an error
GetRepositoryErrors == {errorsNew(<<"failed to get repository: unauthorized">>)}

\* resolveReference: what a lookup of the reference can return
ResolveErrors == {errorsNew(<<"failed to resolve reference: not found">>)}

IsDigestReference(ref) == stringsCut(ref, "@").found

\* digest-qualified references the repository may resolve ref to
ResolvedRefs(ref) ==
    IF IsDigestReference(ref) THEN {ref}
    ELSE {stringsCut(ref, ":").before \o <<"@", d>> : d \in Digests}

\* the callback runVerify hands to resolveReference (verify.go:116-118)
tagWarning(ref) ==
    <<"Warning: Always verify the artifact using digest(@sha256:...) rather than a tag(:",
      ref,
      ") because resolved digest may not point to the same signed artifact, as tags are mutable.\n">>

\* resolveArtifactDigestReference: the resolved reference, named by the
\* trust-policy scope when one is given
resolveArtifactDigestReference(reference, policyScope) ==
    IF policyScope # EmptyString
    THEN LET cut == stringsCut(reference, "@") IN
         IF cut.found THEN policyScope \o <<"@">> \o cut.after ELSE reference
    ELSE reference

maxSignatureAttempts == "math.MaxInt64"

---------------------------------------------------------------------------
(* notation-go values returned by notation.Verify *)

\* trustpolicy.VerificationLevel: a name and the action per validation type
Level(name, action) ==
    [Name |-> name, Enforcement |-> [t \in {"integrity", "authenticity"} |-> action]]
LevelStrict == Level("strict", "enforce")
LevelAudit == Level("audit", "log")
LevelSkip == Level("skip", "skip")
\* a level with overrides: the library names it "custom"
LevelCustom == [Name |-> "custom",
                Enforcement |-> [t \in {"integrity", "authenticity"} |->
                                   IF t = "integrity" THEN "enforce" ELSE "skip"]]
Levels == {LevelStrict, LevelAudit, LevelSkip, LevelCustom}

\* reflect.DeepEqual of two *VerificationLevel: equality of name and enforcement map
reflectDeepEqual(a, b) == a = b

\* notation.ValidationResult
PassedResult == [Type |-> "integrity", Action |-> "enforce", Error |-> Nil]
FailedResult == [Type |-> "authenticity", Action |-> "log",
                 Error |-> errorsNew(<<"certificate chain is not trusted">>)]
Results == {PassedResult, FailedResult}

\* what outcome.UserMetadata() yields: the annotations of the signed payload,
\* or an error with a nil map when the envelope content cannot be read
Annotations == << <<"io.wabbit-networks.buildId", "123">> >>
MetadataReads == {[metadata |-> <<>>, err |-> errorsNew(<<"unable to find envelope content for verification outcome">>)],
                  [metadata |-> <<>>, err |-> Nil],
                  [metadata |-> Annotations, err |-> Nil]}

\* notation.VerificationOutcome
Outcomes == [VerificationLevel : Levels,
             VerificationResults : SeqsUpTo(Results, MaxResults),
             UserMetadata : MetadataReads]

\* outcomes after the first: runVerify reads only their number
LaterOutcomes == {[VerificationLevel |-> LevelAudit,
                   VerificationResults |-> <<FailedResult>>,
                   UserMetadata |-> [metadata |-> Annotations, err |-> Nil]],
                  [VerificationLevel |-> LevelSkip,
                   VerificationResults |-> <<>>,
                   UserMetadata |-> [metadata |-> <<>>, err |-> Nil]]}

OutcomeLists ==
    {<<>>} \cup UNION {{<<o>> \o t : o \in Outcomes, t \in [1..k -> LaterOutcomes]} :
                        k \in 0..(MaxOutcomes - 1)}

ErrorVerificationFailed ==
    <<[type |-> "ErrorVerificationFailed", msg |-> <<"signature verification failed">>]>>
TransportError == <<[type |-> "netError", msg |-> <<"dial tcp: connection refused">>]>>

\* errors notation.Verify returns: nil, the verification-failed kind (bare or
\* wrapped), or another error
VerifyErrors == {Nil, ErrorVerificationFailed,
                 fmtErrorfW(<<"verify: ">>, ErrorVerificationFailed), TransportError}

---------------------------------------------------------------------------
(* verify.go: classification and report *)

genericFailure(printOut) ==
    errorsNew(<<"signature verification failed for all the signatures associated with ">>
              \o printOut)

\* faulty variant: the length of the outcome list is not looked at
checkVerificationFailureErrOnly(outs, printOut, e) ==
    IF e # Nil
    THEN IF ~errorsAs(e, "ErrorVerificationFailed")
         THEN fmtErrorfW(<<"signature verification failed: ">>, e)
         ELSE genericFailure(printOut)
    ELSE Nil

\* faulty variant: an empty outcome list gives the generic failure before the error is looked at
checkVerificationFailureEmptyFirst(outs, printOut, e) ==
    IF Len(outs) = 0 THEN genericFailure(printOut)
    ELSE IF e # Nil
         THEN IF ~errorsAs(e, "ErrorVerificationFailed")
              THEN fmtErrorfW(<<"signature verification failed: ">>, e)
              ELSE genericFailure(printOut)
         ELSE Nil

checkVerificationFailure(outs, printOut, e) ==
    IF e # Nil \/ Len(outs) = 0
    THEN IF e # Nil /\ ~errorsAs(e, "ErrorVerificationFailed")
         THEN fmtErrorfW(<<"signature verification failed: ">>, e)
         ELSE genericFailure(printOut)
    ELSE Nil

\* ioutil.PrintMetadataMap: one line per key/value pair
RECURSIVE PrintMetadataMap(_)
PrintMetadataMap(metadata) ==
    IF Len(metadata) = 0 THEN <<>>
    ELSE << <<metadata[1][1], ": ", metadata[1][2]>> >> \o PrintMetadataMap(Tail(metadata))

metadataHeader == <<"\nThe artifact was signed with the following user metadata.">>

\* faulty variant: the header and the pairs are printed without the length check
printMetadataUnchecked(outcome) ==
    <<metadataHeader>> \o PrintMetadataMap(outcome.UserMetadata.metadata)

\* lines printMetadataIfPresent writes to stdout
printMetadataIfPresent(outcome) ==
    LET metadata == outcome.UserMetadata.metadata IN
    IF Len(metadata) > 0
    THEN <<metadataHeader>> \o PrintMetadataMap(metadata)
    ELSE <<>>

warningLine(result) ==
    <<"Warning: ", result.Type, " was set to ">> \o Quoted(<<result.Action>>)
    \o <<" and failed with error: ">> \o Error(result.Error) \o <<"\n">>

\* the loop of reportVerificationSuccess: lines written to stderr
RECURSIVE resultWarnings(_)
resultWarnings(results) ==
    IF Len(results) = 0 THEN <<>>
    ELSE (IF results[1].Error # Nil THEN <<warningLine(results[1])>> ELSE <<>>)
         \o resultWarnings(Tail(results))

skipLine(printout) ==
    <<"Trust policy is configured to skip signature verification for", " ">> \o printout
successLine(printout) ==
    <<"Successfully verified signature for", " ">> \o printout

\* the warnings of the results of every outcome of the list
RECURSIVE allWarnings(_)
allWarnings(outs) ==
    IF Len(outs) = 0 THEN <<>>
    ELSE resultWarnings(outs[1].VerificationResults) \o allWarnings(Tail(outs))

\* faulty variant: the warnings of every outcome are printed, not of the first only
reportVerificationSuccessAllOutcomes(outs, printout) ==
    LET outcome == outs[1] IN
    [stderr |-> allWarnings(outs),
     stdout |-> IF reflectDeepEqual(outcome.VerificationLevel, LevelSkip)
                THEN <<skipLine(printout)>>
                ELSE <<successLine(printout)>> \o printMetadataIfPresent(outcome)]

\* faulty variant: the metadata is printed after the if/else, for a skipped verification too
reportVerificationSuccessMetadataAfter(outs, printout) ==
    LET outcome == outs[1] IN
    [stderr |-> resultWarnings(outcome.VerificationResults),
     stdout |-> (IF reflectDeepEqual(outcome.VerificationLevel, LevelSkip)
                 THEN <<skipLine(printout)>>
                 ELSE <<successLine(printout)>>) \o printMetadataIfPresent(outcome)]

\* reportVerificationSuccess, for a non-empty outcome list: what it writes
reportVerificationSuccess(outs, printout) ==
    LET outcome == outs[1] IN
    [stderr |-> resultWarnings(outcome.VerificationResults),
     stdout |-> IF reflectDeepEqual(outcome.VerificationLevel, LevelSkip)
                THEN <<skipLine(printout)>>
                ELSE <<successLine(printout)>> \o printMetadataIfPresent(outcome)]

---------------------------------------------------------------------------
(* The invocation *)

NoRepo == [inputType |-> "none", reference |-> EmptyString]
NoVerifyOptions == [ArtifactReference |-> EmptyString, PluginConfig |-> <<>>,
                    MaxSignatureAttempts |-> "0", UserMetadata |-> <<>>]

Called(call, e) == trace' = Append(trace, [call |-> call, err |-> e])

\* the command returns e
Return(e) == /\ retErr' = e
             /\ pc' = "done"

\* verifyCommand(nil): the options and flags as constructed, before Execute
Init ==
    /\ cmdline \in CmdLines
    /\ env \in EnvValues
    /\ opts = [reference |-> EmptyString, pluginConfig |-> <<>>, userMetadata |-> <<>>,
               ociLayout |-> FALSE, trustPolicyScope |-> EmptyString,
               inputType |-> inputTypeRegistry]
    /\ changed = {}
    /\ pc = "parseFlags"
    /\ stdout = <<>>
    /\ stderr = <<>>
    /\ trace = <<>>
    /\ configs = <<>>
    /\ userMetadata = <<>>
    /\ sigRepo = NoRepo
    /\ resolvedRef = EmptyString
    /\ verifyOpts = NoVerifyOptions
    /\ outcomes = <<>>
    /\ err = Nil
    /\ retErr = Nil

\* cobra parses the command line into the variables the flags are bound to
ParseFlags ==
    /\ pc = "parseFlags"
    /\ opts' = [opts EXCEPT !.pluginConfig = cmdline.pluginConfig,
                            !.userMetadata = cmdline.userMetadata,
                            !.ociLayout = IF cmdline.ociLayout = "absent" THEN @
                                          ELSE cmdline.ociLayout = "true",
                            !.trustPolicyScope = IF cmdline.scope.given
                                                 THEN cmdline.scope.value ELSE @]
    /\ changed' = {f \in {"oci-layout"} : cmdline.ociLayout # "absent"}
                  \cup {f \in {"scope"} : cmdline.scope.given}
                  \cup {f \in {"plugin-config"} : cmdline.pluginConfig # <<>>}
                  \cup {f \in {"user-metadata"} : cmdline.userMetadata # <<>>}
    /\ pc' = "args"
    /\ UNCHANGED <<cmdline, env, stdout, stderr, trace, configs, userMetadata, sigRepo,
                   resolvedRef, verifyOpts, outcomes, err, retErr>>

\* Args
ValidateArgs ==
    /\ pc = "args"
    /\ IF Len(cmdline.args) = 0
       THEN /\ Return(errorsNew(<<"missing reference">>))
            /\ UNCHANGED opts
       ELSE /\ opts' = [opts EXCEPT !.reference = cmdline.args[1]]
            /\ pc' = "preRun"
            /\ UNCHANGED retErr
    /\ UNCHANGED <<cmdline, env, changed, stdout, stderr, trace, configs, userMetadata,
                   sigRepo, resolvedRef, verifyOpts, outcomes, err>>

PreRunE ==
    /\ pc = "preRun"
    /\ opts' = IF opts.ociLayout THEN [opts EXCEPT !.inputType = inputTypeOCILayout]
               ELSE opts
    /\ \E writeOk \in BOOLEAN :
         LET r == CheckFlagsAndWarn(<<"oci-layout", "scope">>, writeOk) IN
         /\ stderr' = stderr \o r.written
         /\ Called("CheckFlagsAndWarn", r.err)
         /\ IF r.err # Nil THEN Return(r.err)
            ELSE pc' = "flagGroups" /\ UNCHANGED retErr
    /\ UNCHANGED <<cmdline, env, changed, stdout, configs, userMetadata, sigRepo,
                   resolvedRef, verifyOpts, outcomes, err>>

RequiredTogether == {"oci-layout", "scope"}

\* cobra validates the group declared by MarkFlagsRequiredTogether before RunE
ValidateFlagGroups ==
    /\ pc = "flagGroups"
    /\ LET set == RequiredTogether \cap changed IN
       IF set # {} /\ set # RequiredTogether
       THEN Return(errorsNew(<<"if any flags in the group [oci-layout scope] are set they must all be set">>))
       ELSE pc' = "runE" /\ UNCHANGED retErr
    /\ UNCHANGED <<cmdline, env, opts, changed, stdout, stderr, trace, configs,
                   userMetadata, sigRepo, resolvedRef, verifyOpts, outcomes, err>>

\* RunE: runVerify up to verifier.NewFromConfig
NewFromConfig ==
    /\ pc = "runE"
    /\ \E e \in {Nil} \cup NewFromConfigErrors :
         /\ trace' = trace \o <<[call |-> "runVerify", err |-> Nil],
                                [call |-> "verifier.NewFromConfig", err |-> e]>>
         /\ err' = e
         /\ IF e # Nil THEN Return(e)
            ELSE pc' = "pluginConfig" /\ UNCHANGED retErr
    /\ UNCHANGED <<cmdline, env, opts, changed, stdout, stderr, configs, userMetadata,
                   sigRepo, resolvedRef, verifyOpts, outcomes>>

ParsePluginConfig ==
    /\ pc = "pluginConfig"
    /\ LET r == ParseFlagMap(opts.pluginConfig, "plugin-config") IN
       /\ Called("ParseFlagMap(pluginConfig)", r.err)
       /\ configs' = r.m
       /\ err' = r.err
       /\ IF r.err # Nil THEN Return(r.err)
          ELSE pc' = "userMetadata" /\ UNCHANGED retErr
    /\ UNCHANGED <<cmdline, env, opts, changed, stdout, stderr, userMetadata, sigRepo,
                   resolvedRef, verifyOpts, outcomes>>

\* faulty variant: the error of the user-metadata parse is not returned
ParseUserMetadataIgnoringError ==
    /\ pc = "userMetadata"
    /\ LET r == ParseFlagMap(opts.userMetadata, "user-metadata") IN
       /\ Called("ParseFlagMap(userMetadata)", r.err)
       /\ userMetadata' = r.m
       /\ err' = r.err
       /\ pc' = "getRepository"
    /\ UNCHANGED <<cmdline, env, opts, changed, stdout, stderr, configs, sigRepo,
                   resolvedRef, verifyOpts, outcomes, retErr>>

ParseUserMetadata ==
    /\ pc = "userMetadata"
    /\ LET r == ParseFlagMap(opts.userMetadata, "user-metadata") IN
       /\ Called("ParseFlagMap(userMetadata)", r.err)
       /\ userMetadata' = r.m
       /\ err' = r.err
       /\ IF r.err # Nil THEN Return(r.err)
          ELSE pc' = "getRepository" /\ UNCHANGED retErr
    /\ UNCHANGED <<cmdline, env, opts, changed, stdout, stderr, configs, sigRepo,
                   resolvedRef, verifyOpts, outcomes>>

\* faulty variant: runVerify goes on to resolveReference after a failed getRepository
GetRepositoryIgnoringError ==
    /\ pc = "getRepository"
    /\ \E e \in {Nil} \cup GetRepositoryErrors :
         /\ Called("getRepository", e)
         /\ err' = e
         /\ sigRepo' = [inputType |-> opts.inputType, reference |-> opts.reference]
         /\ pc' = "resolveReference"
    /\ UNCHANGED <<cmdline, env, opts, changed, stdout, stderr, configs, userMetadata,
                   resolvedRef, verifyOpts, outcomes, retErr>>

GetRepository ==
    /\ pc = "getRepository"
    /\ \E e \in {Nil} \cup GetRepositoryErrors :
         /\ Called("getRepository", e)
         /\ err' = e
         /\ IF e # Nil
            THEN Return(e) /\ UNCHANGED sigRepo
            ELSE /\ sigRepo' = [inputType |-> opts.inputType, reference |-> opts.reference]
                 /\ pc' = "resolveReference"
                 /\ UNCHANGED retErr
    /\ UNCHANGED <<cmdline, env, opts, changed, stdout, stderr, configs, userMetadata,
                   resolvedRef, verifyOpts, outcomes>>

ResolveReference ==
    /\ pc = "resolveReference"
    /\ \/ \E e \in ResolveErrors :
            /\ Called("resolveReference", e)
            /\ err' = e
            /\ Return(e)
            /\ UNCHANGED <<resolvedRef, stderr>>
       \/ \E r \in ResolvedRefs(sigRepo.reference) :
            /\ Called("resolveReference", Nil)
            /\ err' = Nil
            /\ resolvedRef' = r
            /\ stderr' = IF IsDigestReference(sigRepo.reference) THEN stderr
                         ELSE Append(stderr, tagWarning(stringsCut(sigRepo.reference, ":").after[1]))
            /\ pc' = "verify"
            /\ UNCHANGED retErr
    /\ UNCHANGED <<cmdline, env, opts, changed, stdout, configs, userMetadata, sigRepo,
                   verifyOpts, outcomes>>

\* notation.Verify called for the artifact reference derived from ref
VerifyWith(ref) ==
    /\ pc = "verify"
    /\ verifyOpts' = [ArtifactReference |-> resolveArtifactDigestReference(ref, opts.trustPolicyScope),
                      PluginConfig |-> configs,
                      MaxSignatureAttempts |-> maxSignatureAttempts,
                      UserMetadata |-> userMetadata]
    /\ \E outs \in OutcomeLists, e \in VerifyErrors :
         /\ outcomes' = outs
         /\ err' = e
         /\ Called("notation.Verify", e)
    /\ pc' = "checkFailure"
    /\ UNCHANGED <<cmdline, env, opts, changed, stdout, stderr, configs, userMetadata,
                   sigRepo, resolvedRef, retErr>>

\* faulty variant: the reference the user gave is verified, not the resolved one
VerifyOriginalReference == VerifyWith(opts.reference)

Verify == VerifyWith(resolvedRef)

CheckFailure ==
    /\ pc = "checkFailure"
    /\ LET e == checkVerificationFailure(outcomes, resolvedRef, err) IN
       /\ Called("checkVerificationFailure", e)
       /\ err' = e
       /\ IF e # Nil THEN Return(e)
          ELSE pc' = "report" /\ UNCHANGED retErr
    /\ UNCHANGED <<cmdline, env, opts, changed, stdout, stderr, configs, userMetadata,
                   sigRepo, resolvedRef, verifyOpts, outcomes>>

\* reportVerificationSuccess and return nil; outcomes[0] of an empty list panics
Report ==
    /\ pc = "report"
    /\ Called("reportVerificationSuccess", Nil)
    /\ IF Len(outcomes) = 0
       THEN /\ pc' = "panic"
            /\ UNCHANGED <<stdout, stderr, retErr>>
       ELSE LET r == reportVerificationSuccess(outcomes, resolvedRef) IN
            /\ stderr' = stderr \o r.stderr
            /\ stdout' = stdout \o r.stdout
            /\ Return(Nil)
    /\ UNCHANGED <<cmdline, env, opts, changed, configs, userMetadata, sigRepo,
                   resolvedRef, verifyOpts, outcomes, err>>

Next ==
    \/ ParseFlags
    \/ ValidateArgs
    \/ PreRunE
    \/ ValidateFlagGroups
    \/ NewFromConfig
    \/ ParsePluginConfig
    \/ ParseUserMetadata
    \/ GetRepository
    \/ ResolveReference
    \/ Verify
    \/ CheckFailure
    \/ Report

Spec == Init /\ [][Next]_vars

---------------------------------------------------------------------------
(* Vocabulary of the properties *)

Done == pc = "done"

CallIndices(call) == {i \in DOMAIN trace : trace[i].call = call}
Count(call) == Cardinality(CallIndices(call))
WasCalled(call) == CallIndices(call) # {}

\* the error result of the (first) call of that name
ResultOf(call) == trace[CHOOSE i \in CallIndices(call) : \A j \in CallIndices(call) : i <= j].err

LineIndices(out, P(_)) == {i \in DOMAIN out : P(out[i])}

IsSuccessLine(l) == l[1] = "Successfully verified signature for"
IsSkipLine(l) == l[1] = "Trust policy is configured to skip signature verification for"
IsReportLine(l) == IsSuccessLine(l) \/ IsSkipLine(l)
IsMetadataHeader(l) == l = <<"\nThe artifact was signed with the following user metadata.">>
IsResultWarning(l) == Len(l) >= 3 /\ l[3] = " was set to "
IsExperimentalWarning(l) ==
    l = <<"Warning: This feature is experimental and may not be fully tested or completed and may be deprecated. Report any issues to \"https://github/notaryproject/notation\"\n">>

\* the message of the generic verification failure for a reference
GenericMessage(ref) ==
    <<"signature verification failed for all the signatures associated with ">> \o ref

FirstOutcome == outcomes[1]
IsKindVerificationFailed(e) == \E i \in 1..Len(e) : e[i].type = "ErrorVerificationFailed"

---------------------------------------------------------------------------
(* C1 *)

\* C1: when notation.Verify returns no outcome and a nil error, or an error of
\* the kind ErrorVerificationFailed with any outcome list, the result of
\* checkVerificationFailure is the generic error "signature verification failed
\* for all the signatures associated with <resolved reference>", runVerify
\* returns it and reportVerificationSuccess is not called; an empty outcome list
\* never leads to a report of success, whatever the error.
C1_EmptyOrFailedKindIsGenericFailure ==
    /\ pc # "panic"
    /\ WasCalled("checkVerificationFailure") =>
         LET ve == ResultOf("notation.Verify") IN
         /\ ((Len(outcomes) = 0 /\ ve = Nil) \/ IsKindVerificationFailed(ve)) =>
              /\ ResultOf("checkVerificationFailure") = errorsNew(GenericMessage(resolvedRef))
              /\ Done
              /\ retErr = errorsNew(GenericMessage(resolvedRef))
              /\ ~WasCalled("reportVerificationSuccess")
              /\ stdout = <<>>
         /\ Len(outcomes) = 0 =>
              /\ Done
              /\ retErr # Nil
              /\ ~WasCalled("reportVerificationSuccess")
              /\ LineIndices(stdout, IsReportLine) = {}

C1_Witness ==
    /\ Done
    /\ WasCalled("checkVerificationFailure")
    /\ ResultOf("notation.Verify") = Nil
    /\ Len(outcomes) = 0
    /\ Error(retErr) = GenericMessage(resolvedRef)

---------------------------------------------------------------------------
(* C2 *)

\* C2: when notation.Verify returns a non-nil error that is not of the kind
\* ErrorVerificationFailed, then for every outcome list, the empty one
\* included, checkVerificationFailure returns an error that wraps the original
\* one, with the message "signature verification failed: " followed by the
\* original message, and never the generic message.
C2_OtherErrorIsWrapped ==
    WasCalled("checkVerificationFailure") =>
        LET ve == ResultOf("notation.Verify")
            r == ResultOf("checkVerificationFailure")
        IN  (ve # Nil /\ ~IsKindVerificationFailed(ve)) =>
              /\ r # Nil
              /\ Error(r) = <<"signature verification failed: ">> \o Error(ve)
              /\ Tail(r) = ve
              /\ Error(r) # GenericMessage(resolvedRef)
              /\ retErr = r

C2_Witness ==
    /\ Done
    /\ WasCalled("checkVerificationFailure")
    /\ ResultOf("notation.Verify") = TransportError
    /\ Len(outcomes) = 0
    /\ Error(retErr) = <<"signature verification failed: ", "dial tcp: connection refused">>

---------------------------------------------------------------------------
(* C3 *)

\* C3: for a non-empty outcome list, reportVerificationSuccess prints exactly
\* one of the two report lines: the "Trust policy is configured to skip
\* signature verification for <reference>" line, with no success line and no
\* user metadata, when the level of the first outcome is skip; the
\* "Successfully verified signature for <reference>" line and no skip line for
\* every other level.
C3_SkipOrSuccessLine ==
    WasCalled("reportVerificationSuccess") =>
        /\ Len(outcomes) > 0
        /\ Cardinality(LineIndices(stdout, IsReportLine)) = 1
        /\ IF FirstOutcome.VerificationLevel.Name = "skip"
           THEN stdout = << <<"Trust policy is configured to skip signature verification for", " ">>
                            \o resolvedRef >>
           ELSE /\ stdout[1] = <<"Successfully verified signature for", " ">> \o resolvedRef
                /\ LineIndices(stdout, IsSkipLine) = {}

C3_Witness ==
    /\ WasCalled("reportVerificationSuccess")
    /\ FirstOutcome.VerificationLevel.Name = "skip"
    /\ Len(FirstOutcome.UserMetadata.metadata) > 0
    /\ LineIndices(stdout, IsSkipLine) = {1}

---------------------------------------------------------------------------
(* C4 *)

MetadataLines == {i \in DOMAIN stdout : ~IsReportLine(stdout[i])}

\* C4: user metadata is printed only after the success line of the same run,
\* and exactly in the runs that report with a first outcome whose level is not
\* skip and whose metadata map is non-empty: the header and one line per pair.
\* Nothing of it is printed when the run fails (error of the verifier, no
\* outcome, parse or resolution error), when the map is empty or when it
\* cannot be read.
C4_MetadataOnlyAfterSuccess ==
    LET printable == /\ WasCalled("reportVerificationSuccess")
                     /\ Len(outcomes) > 0
                     /\ FirstOutcome.VerificationLevel.Name # "skip"
                     /\ FirstOutcome.UserMetadata.err = Nil
                     /\ Len(FirstOutcome.UserMetadata.metadata) > 0
    IN  /\ (MetadataLines # {}) <=> printable
        /\ MetadataLines # {} =>
             /\ IsSuccessLine(stdout[1])
             /\ \A i \in MetadataLines : i > 1
             /\ IsMetadataHeader(stdout[2])
             /\ Len(stdout) = 2 + Len(FirstOutcome.UserMetadata.metadata)
             /\ \A k \in 1..Len(FirstOutcome.UserMetadata.metadata) :
                  /\ stdout[2 + k][1] = FirstOutcome.UserMetadata.metadata[k][1]
                  /\ stdout[2 + k][3] = FirstOutcome.UserMetadata.metadata[k][2]
             /\ Done /\ retErr = Nil
        /\ (Done /\ retErr # Nil) => stdout = <<>>

C4_Witness ==
    /\ Done
    /\ retErr = Nil
    /\ Len(stdout) = 3
    /\ FirstOutcome.VerificationLevel.Name = "audit"
    /\ IsSuccessLine(stdout[1])
    /\ IsMetadataHeader(stdout[2])
    /\ stdout[3] = <<"io.wabbit-networks.buildId", ": ", "123">>

---------------------------------------------------------------------------
(* C5 *)

SomeEntryMalformed == Malformed(opts.pluginConfig) \/ Malformed(opts.userMetadata)

\* the error ParseFlagMap reports for the flag
ParseError(flagName) ==
    errorsNew(<<"could not parse flag ", flagName, ": key-value pair requires \"=\" as separator">>)

\* the parse error of the first malformed flag, plugin-config before user-metadata
FirstParseError ==
    IF Malformed(opts.pluginConfig) THEN ParseError("plugin-config")
    ELSE ParseError("user-metadata")

NoResolutionOrVerification ==
    /\ ~WasCalled("getRepository")
    /\ ~WasCalled("resolveReference")
    /\ ~WasCalled("notation.Verify")

\* C5 as stated: whenever some --plugin-config or user-metadata entry is
\* malformed, runVerify returns the parse error and none of getRepository,
\* resolveReference and notation.Verify is called.
C5_Original ==
    (WasCalled("runVerify") /\ SomeEntryMalformed) =>
        /\ NoResolutionOrVerification
        /\ Done => retErr = FirstParseError

\* C5 amended: whenever some --plugin-config or user-metadata entry is
\* malformed, none of getRepository, resolveReference and notation.Verify is
\* called and runVerify returns an error: the parse error when
\* verifier.NewFromConfig, which runs before the parsing, succeeded, and the
\* error of verifier.NewFromConfig otherwise.
C5_MalformedAbortsBeforeResolution ==
    (WasCalled("runVerify") /\ SomeEntryMalformed) =>
        /\ NoResolutionOrVerification
        /\ pc \in {"pluginConfig", "userMetadata", "done"}
        /\ Done =>
             /\ retErr # Nil
             /\ stdout = <<>>
             /\ IF ResultOf("verifier.NewFromConfig") = Nil
                THEN retErr = FirstParseError
                ELSE retErr = ResultOf("verifier.NewFromConfig")

C5_Witness ==
    /\ Done
    /\ WasCalled("runVerify")
    /\ opts.pluginConfig = <<KeyValue>>
    /\ opts.userMetadata = <<KeyValue, NoValue>>
    /\ retErr = ParseError("user-metadata")
    /\ NoResolutionOrVerification

---------------------------------------------------------------------------
(* C6 *)

ExperimentalFlagsChanged == {"oci-layout", "scope"} \cap changed

\* C6: when exactly one of --oci-layout and --scope is set on the command line
\* the command returns an error and runVerify is never called, whatever the
\* value of NOTATION_EXPERIMENTAL; consequently, whenever runVerify runs,
\* trustPolicyScope is set if and only if inputType is OCI layout.
C6_ScopeIffOCILayout ==
    /\ (pc # "parseFlags" /\ Cardinality(ExperimentalFlagsChanged) = 1) =>
         /\ ~WasCalled("runVerify")
         /\ Done => retErr # Nil
    /\ WasCalled("runVerify") =>
         ((opts.trustPolicyScope # EmptyString) <=> (opts.inputType = inputTypeOCILayout))

\* the first half of C6 alone
C6_ExactlyOneFlagRejected ==
    (pc # "parseFlags" /\ Cardinality(ExperimentalFlagsChanged) = 1) =>
        /\ ~WasCalled("runVerify")
        /\ Done => retErr # Nil

---------------------------------------------------------------------------
(* C7 *)

Digest(ref) == stringsCut(ref, "@").after

\* C7: the ArtifactReference handed to notation.Verify is derived from the
\* digest-qualified reference resolveReference returned and from the
\* trust-policy scope, never from the reference the user gave; and when
\* resolveReference fails, notation.Verify is not called and runVerify returns
\* that error unchanged.
C7_VerifiesResolvedDigest ==
    /\ WasCalled("notation.Verify") =>
         /\ ResultOf("resolveReference") = Nil
         /\ resolvedRef \in ResolvedRefs(opts.reference)
         /\ IsDigestReference(verifyOpts.ArtifactReference)
         /\ Digest(verifyOpts.ArtifactReference) = Digest(resolvedRef)
         /\ stringsIndex(verifyOpts.ArtifactReference, ":") = 0
         /\ IF opts.trustPolicyScope = EmptyString
            THEN verifyOpts.ArtifactReference = resolvedRef
            ELSE verifyOpts.ArtifactReference
                   = opts.trustPolicyScope \o <<"@">> \o Digest(resolvedRef)
    /\ (WasCalled("resolveReference") /\ ResultOf("resolveReference") # Nil) =>
         /\ ~WasCalled("notation.Verify")
         /\ Done
         /\ retErr = ResultOf("resolveReference")

C7_Witness ==
    /\ WasCalled("notation.Verify")
    /\ opts.reference = TagRef
    /\ opts.trustPolicyScope = <<"local/net-monitor">>
    /\ resolvedRef = <<"localhost:5000/net-monitor", "@", "sha256:bbb">>
    /\ verifyOpts.ArtifactReference = <<"local/net-monitor", "@", "sha256:bbb">>

---------------------------------------------------------------------------
(* C8 *)

\* the steps of runVerify, in the order of the code
Steps == <<"verifier.NewFromConfig", "ParseFlagMap(pluginConfig)",
           "ParseFlagMap(userMetadata)", "getRepository", "resolveReference",
           "notation.Verify", "reportVerificationSuccess">>

IsStep(call) == \E k \in DOMAIN Steps : Steps[k] = call

\* the calls of the trace that are steps of runVerify
RECURSIVE StepsOf(_)
StepsOf(t) ==
    IF Len(t) = 0 THEN <<>>
    ELSE (IF IsStep(t[1].call) THEN <<t[1]>> ELSE <<>>) \o StepsOf(Tail(t))

\* a step succeeded: nil error and, for notation.Verify, some outcome
Succeeded(ev) ==
    /\ ev.err = Nil
    /\ ev.call = "notation.Verify" => Len(outcomes) > 0

\* the steps run are a prefix of Steps, each once, each after the success of
\* all earlier ones
LinearRun ==
    LET run == StepsOf(trace) IN
    /\ Len(run) <= Len(Steps)
    /\ \A k \in DOMAIN run : run[k].call = Steps[k]
    /\ \A k \in DOMAIN run : k < Len(run) => Succeeded(run[k])
    /\ \A k \in DOMAIN Steps : Count(Steps[k]) <= 1
    /\ Count("runVerify") <= 1
    /\ Count("checkVerificationFailure") <= 1

\* the run ends with an error and no report line, or with nil and one report
TwoOutcomes ==
    (Done /\ WasCalled("runVerify")) =>
        \/ /\ retErr # Nil
           /\ LineIndices(stdout, IsReportLine) = {}
           /\ ~WasCalled("reportVerificationSuccess")
        \/ /\ retErr = Nil
           /\ Cardinality(LineIndices(stdout, IsReportLine)) = 1
           /\ Count("reportVerificationSuccess") = 1

\* C8 as stated: runVerify is a linear sequence of steps, each run at most
\* once and only after the success of all earlier ones; the error returned is
\* the error of the first failing step; the run ends with an error and no
\* success/skip line, or with nil and exactly one report.
C8_Original ==
    /\ LinearRun
    /\ TwoOutcomes
    /\ (Done /\ WasCalled("runVerify")) =>
         LET run == StepsOf(trace) IN
         \A k \in DOMAIN run : run[k].err # Nil => retErr = run[k].err

\* C8 amended: as stated, except that only the error of a step before
\* notation.Verify is returned as it is; when notation.Verify fails or returns
\* no outcome, the error returned is the one checkVerificationFailure makes of
\* it (the wrapped error or the generic failure), not the error of the step.
C8_LinearRunNoRetry ==
    /\ LinearRun
    /\ TwoOutcomes
    /\ (Done /\ WasCalled("runVerify")) =>
         LET run == StepsOf(trace)
             last == run[Len(run)]
         IN  /\ Len(run) > 0
             /\ \A k \in DOMAIN run :
                  (run[k].err # Nil /\ run[k].call # "notation.Verify") =>
                      k = Len(run) /\ retErr = run[k].err
             /\ (last.call = "notation.Verify") =>
                  /\ ~Succeeded(last)
                  /\ retErr # Nil
                  /\ retErr = ResultOf("checkVerificationFailure")
                  /\ last.err # Nil => retErr # last.err
             /\ (retErr = Nil) <=> (last.call = "reportVerificationSuccess")

C8_Witness ==
    /\ Done
    /\ Len(StepsOf(trace)) = 6
    /\ ResultOf("notation.Verify") = TransportError
    /\ retErr = fmtErrorfW(<<"signature verification failed: ">>, TransportError)
    /\ stdout = <<>>

---------------------------------------------------------------------------
(* C9 *)

FailedResults(results) == {k \in DOMAIN results : results[k].Error # Nil}
ResultWarnings == LineIndices(stderr, IsResultWarning)

\* C9: when notation.Verify returns a nil error and at least one outcome,
\* runVerify returns nil however many results of the first outcome carry an
\* error; one warning is printed for each of these results, in their order,
\* none for a result without error and none for the results of later outcomes.
C9_WarningsDoNotFail ==
    (WasCalled("checkVerificationFailure")
       /\ ResultOf("notation.Verify") = Nil /\ Len(outcomes) > 0) =>
        /\ ResultOf("checkVerificationFailure") = Nil
        /\ pc \in {"report", "done"}
        /\ pc = "report" => ResultWarnings = {}
        /\ Done =>
             /\ retErr = Nil
             /\ Cardinality(ResultWarnings)
                  = Cardinality(FailedResults(FirstOutcome.VerificationResults))
             /\ \A i \in ResultWarnings :
                  /\ stderr[i][2] = "authenticity"
                  /\ stderr[i][5] = "log"
                  /\ stderr[i][8] = "certificate chain is not trusted"

C9_Witness ==
    /\ Done
    /\ retErr = Nil
    /\ Len(outcomes) = 2
    /\ FirstOutcome.VerificationResults = <<FailedResult, PassedResult>>
    /\ outcomes[2].VerificationResults = <<FailedResult>>
    /\ Cardinality(ResultWarnings) = 1

---------------------------------------------------------------------------
(* C10 *)

ExperimentalWarnings == LineIndices(stderr, IsExperimentalWarning)

\* the message names exactly the changed flags
NamesChangedFlags(msg) ==
    \A f \in {"oci-layout", "scope"} :
        (f \in changed) <=> (\E i \in 1..(Len(msg) - 1) : msg[i] = "--" /\ msg[i + 1] = f)

\* C10: once CheckFlagsAndWarn has run: if --oci-layout or --scope was set and
\* NOTATION_EXPERIMENTAL is not exactly "1", it returned an error naming the
\* changed flags, which the command returns without calling runVerify; if one
\* was set and the variable is "1", the experimental warning is written once
\* and the command goes on, unless the write failed; if neither was set, it
\* returned nil and wrote no warning, whatever the value of the variable.
C10_ExperimentalGate ==
    /\ Cardinality(ExperimentalWarnings) <= 1
    /\ Count("CheckFlagsAndWarn") <= 1
    /\ WasCalled("runVerify") => (WasCalled("CheckFlagsAndWarn") /\ ResultOf("CheckFlagsAndWarn") = Nil)
    /\ WasCalled("CheckFlagsAndWarn") =>
         LET r == ResultOf("CheckFlagsAndWarn") IN
         /\ (ExperimentalFlagsChanged # {} /\ env # <<"1">>) =>
              /\ r # Nil
              /\ NamesChangedFlags(Error(r))
              /\ Error(r)[1] = "flag(s) "
              /\ ExperimentalWarnings = {}
              /\ Done /\ retErr = r
              /\ ~WasCalled("runVerify")
         /\ (ExperimentalFlagsChanged # {} /\ env = <<"1">>) =>
              \/ /\ r = Nil
                 /\ Cardinality(ExperimentalWarnings) = 1
                 /\ (Done /\ ~WasCalled("runVerify")) =>
                      Cardinality(ExperimentalFlagsChanged) = 1
              \/ /\ r # Nil
                 /\ r[1].type = "PathError"
                 /\ ExperimentalWarnings = {}
                 /\ Done /\ retErr = r
                 /\ ~WasCalled("runVerify")
         /\ ExperimentalFlagsChanged = {} =>
              /\ r = Nil
              /\ ExperimentalWarnings = {}
              /\ pc # "done" \/ WasCalled("runVerify")

C10_Witness ==
    /\ WasCalled("runVerify")
    /\ env = <<"1">>
    /\ changed = {"oci-layout", "scope"}
    /\ ResultOf("CheckFlagsAndWarn") = Nil
    /\ Cardinality(ExperimentalWarnings) = 1

====
